---- MODULE Spec2Model ----
(***************************************************************************)
(* Model of app_finale.py: the assessment scoring / persistence path       *)
(* (save_assessment_response), the history query and the Streamlit         *)
(* session / navigation logic of main() and the render_* functions.        *)
(*                                                                         *)
(* Tables are sets of rows (records named after the SQL columns).  One     *)
(* action is one user interaction together with the script run(s) that     *)
(* Streamlit performs for it, st.rerun() included.                         *)
(*                                                                         *)
(* Not modelled: init_database (schema bootstrap), the last_login and      *)
(* updated_at timestamps, toggle_admin_mode (never called), the keys that  *)
(* Streamlit keeps for keyed widgets, charts and layout.  Serial ids are   *)
(* the next unused number; created_at is the order of insertion.  The      *)
(* rows of the reference tables are sample data: the schema file is not    *)
(* part of the sources; the bands of type 1 leave a gap and those of type  *)
(* 2 overlap, which the program does not exclude.                          *)
(***************************************************************************)
EXTENDS Integers, Sequences, FiniteSets, TLC

(* ---------------------------------------------------------------------- *)
(* Bounds of the model                                                     *)
(* ---------------------------------------------------------------------- *)
\* header rows the assessment_responses table may hold
MaxResponses == 1
\* a respondent picks among the first MaxPick options (by option_order)
MaxPick == 1
\* header rows the table may hold in the specification of the response history
MaxHistory == 2

(* ---------------------------------------------------------------------- *)
(* Reference data (tables the program only reads)                          *)
(* ---------------------------------------------------------------------- *)
assessment_types ==
    { [assessment_type_id |-> 1, code |-> "RELATIONSHIP", title |-> "Relationship"],
      [assessment_type_id |-> 2, code |-> "STRESS",       title |-> "Stress"] }

assessment_questions ==
    { [question_id |-> 1, assessment_type_id |-> 1, question_order |-> 1, question_text |-> "r1"],
      [question_id |-> 2, assessment_type_id |-> 1, question_order |-> 4, question_text |-> "r4"],
      [question_id |-> 3, assessment_type_id |-> 1, question_order |-> 7, question_text |-> "r7"],
      [question_id |-> 4, assessment_type_id |-> 2, question_order |-> 4, question_text |-> "s4"] }

\* five-point scale 1..5 for type 1, values 1..4 for type 2
response_options ==
    { [option_id |-> i, assessment_type_id |-> 1, option_value |-> i,
       option_order |-> i, option_text |-> "a"] : i \in 1..5 }
    \cup
    { [option_id |-> 5 + i, assessment_type_id |-> 2, option_value |-> i,
       option_order |-> i, option_text |-> "b"] : i \in 1..4 }

\* type 1 has a gap at 10; the bands of type 2 overlap at 2
severity_levels ==
    { [severity_id |-> 1, assessment_type_id |-> 1, min_score |-> 3,  max_score |-> 9,  severity_label |-> "Low"],
      [severity_id |-> 2, assessment_type_id |-> 1, min_score |-> 11, max_score |-> 15, severity_label |-> "High"],
      [severity_id |-> 3, assessment_type_id |-> 2, min_score |-> 1,  max_score |-> 2,  severity_label |-> "Minimal"],
      [severity_id |-> 4, assessment_type_id |-> 2, min_score |-> 2,  max_score |-> 5,  severity_label |-> "Elevated"] }

\* assessment type ids a caller may pass (3 is in no row of assessment_types)
TypeIds == {1, 2, 3}

(* ---------------------------------------------------------------------- *)
(* State                                                                   *)
(* ---------------------------------------------------------------------- *)
VARIABLES
    users,                 \* table users
    user_profiles,         \* table user_profiles
    assessment_responses,  \* table assessment_responses (committed rows)
    response_details,      \* table response_details (committed rows)
    session,               \* st.session_state: key -> value
    radio,                 \* value of the sidebar "Main Menu" radio widget
    view,                  \* what the last script run rendered
    lastSave               \* the save_assessment_response call of the last operation

vars == <<users, user_profiles, assessment_responses, response_details, session, radio, view, lastSave>>

(* ---------------------------------------------------------------------- *)
(* Helpers                                                                 *)
(* ---------------------------------------------------------------------- *)
RECURSIVE SumValues(_)
\* sum(r[2] for r in responses)
SumValues(rs) == IF rs = <<>> THEN 0 ELSE Head(rs)[3] + SumValues(Tail(rs))

Max(S) == CHOOSE x \in S : \A y \in S : y <= x

\* questions of a type in question_order, as get_assessment_questions returns them
RECURSIVE SortByOrder(_)
SortByOrder(Q) ==
    IF Q = {} THEN <<>>
    ELSE LET q == CHOOSE x \in Q : \A y \in Q : x.question_order <= y.question_order
         IN  <<q>> \o SortByOrder(Q \ {q})

get_assessment_questions(assessment_type_id) ==
    SortByOrder({q \in assessment_questions : q.assessment_type_id = assessment_type_id})

(* ---------------------------------------------------------------------- *)
(* save_assessment_response                                                *)
(* ---------------------------------------------------------------------- *)
\* reverse_scored_questions = [4, 7]
reverse_scored_questions_only_4 == {4}

reverse_scored_questions == {4, 7}

\* if assessment_code == 'RELATIONSHIP'
IsReverseScored_any(assessment_code) == TRUE

IsReverseScored(assessment_code) == assessment_code = "RELATIONSHIP"

\* rows of the question_order query for one question_id
QuestionOrderRows(question_id) ==
    {q \in assessment_questions : q.question_id = question_id}

\* the body of the loop of lines 205-222 for one response triple
AdjustOne(response) ==
    LET question_order == (CHOOSE x \in QuestionOrderRows(response[1]) : TRUE).question_order
    IN  IF question_order \in reverse_scored_questions
        THEN <<response[1], response[2], 6 - response[3]>>
        ELSE response

adjusted_responses(responses) ==
    [i \in 1..Len(responses) |-> AdjustOne(responses[i])]

\* total_score after lines 199-226: recomputed for RELATIONSHIP, else the argument
AdjustedTotal_keeps_argument(assessment_code, responses, total_score) == total_score

AdjustedTotal(assessment_code, responses, total_score) ==
    IF IsReverseScored(assessment_code)
    THEN SumValues(adjusted_responses(responses))
    ELSE total_score

\* rows of the severity query, lines 229-234
MatchingSeverity_or_any(assessment_type_id, total_score) ==
    LET m == {s \in severity_levels :
                /\ s.assessment_type_id = assessment_type_id
                /\ s.min_score <= total_score
                /\ total_score <= s.max_score}
    IN  IF m = {} THEN {s \in severity_levels : s.assessment_type_id = assessment_type_id}
        ELSE m

MatchingSeverity(assessment_type_id, total_score) ==
    {s \in severity_levels :
        /\ s.assessment_type_id = assessment_type_id
        /\ s.min_score <= total_score
        /\ total_score <= s.max_score}

\* conn.rollback(): the connection's uncommitted writes are discarded
rollback_keeps_writes(committed, working) == working

rollback(committed, working) == committed

NextResponseId(rows) == IF rows = {} THEN 1 ELSE 1 + Max({r.response_id : r \in rows})

DetailRows(response_id, rs, n) ==
    { [response_id |-> response_id, question_id |-> rs[j][1],
       selected_option_id |-> rs[j][2], response_value |-> rs[j][3], seq |-> j] : j \in 1..n }

\* number of SQL statements (commit included) a call issues when nothing fails
NumStatements(assessment_code, responses) ==
    (IF IsReverseScored(assessment_code) THEN Len(responses) ELSE 0) + Len(responses) + 4

(***************************************************************************)
(* db is [assessment_responses, response_details].  fault is the index of  *)
(* the statement on which the database raises (0: none); first is the row  *)
(* cur.fetchone() returns from the severity query when several match.      *)
(* The result is [ok, error, db].                                          *)
(***************************************************************************)
save_assessment_response(db, user_id, assessment_type_id, responses, total_score, fault, first) ==
    LET codeRows == {t \in assessment_types : t.assessment_type_id = assessment_type_id}
        Fail(err, working) == [ok |-> FALSE, error |-> err, db |-> rollback(db, working)]
    IN
    IF fault = 1 THEN Fail("DatabaseError", db)
    ELSE IF codeRows = {} THEN Fail("TypeError", db)
    ELSE
    LET assessment_code == (CHOOSE t \in codeRows : TRUE).code
        isRel   == IsReverseScored(assessment_code)
        nLook   == IF isRel THEN Len(responses) ELSE 0
        \* first response whose question_order lookup finds no row
        missing == {i \in 1..Len(responses) : QuestionOrderRows(responses[i][1]) = {}}
    IN
    IF isRel /\ fault \in 2..(1 + nLook)
             /\ \A i \in missing : 1 + i >= fault
        THEN Fail("DatabaseError", db)
    ELSE IF isRel /\ missing # {} THEN Fail("TypeError", db)
    ELSE
    LET rs       == IF isRel THEN adjusted_responses(responses) ELSE responses
        total    == AdjustedTotal(assessment_code, responses, total_score)
        matching == MatchingSeverity(assessment_type_id, total)
        sevStmt  == 2 + nLook
        hdrStmt  == 3 + nLook
    IN
    IF fault = sevStmt THEN Fail("DatabaseError", db)
    ELSE IF matching = {} THEN Fail("TypeError", db)
    ELSE IF fault = hdrStmt THEN Fail("DatabaseError", db)
    ELSE
    LET severity_id == IF first \in matching THEN first.severity_id
                       ELSE (CHOOSE s \in matching : TRUE).severity_id
        response_id == NextResponseId(db.assessment_responses)
        header == [response_id |-> response_id, user_id |-> user_id,
                   assessment_type_id |-> assessment_type_id,
                   total_score |-> total, severity_id |-> severity_id,
                   created_at |-> response_id]
        withHeader == db.assessment_responses \cup {header}
        Working(n) == [assessment_responses |-> withHeader,
                       response_details |->
                           db.response_details \cup DetailRows(response_id, rs, n)]
    IN
    IF fault \in (hdrStmt + 1)..(hdrStmt + Len(rs))
        THEN Fail("DatabaseError", Working(fault - hdrStmt - 1))
    ELSE IF fault = hdrStmt + Len(rs) + 1
        THEN Fail("DatabaseError", Working(Len(rs)))
    ELSE [ok |-> TRUE, error |-> "", db |-> Working(Len(rs))]


(* ---------------------------------------------------------------------- *)
(* get_user_assessment_history                                             *)
(* ---------------------------------------------------------------------- *)
RECURSIVE SortBySeq(_)
SortBySeq(D) ==
    IF D = {} THEN <<>>
    ELSE LET d == CHOOSE x \in D : \A y \in D : x.seq <= y.seq
         IN  <<d>> \o SortBySeq(D \ {d})

\* json_agg(json_build_object('question', ..., 'answer', ..., 'value', ...))
DetailObjects(details) ==
    LET ds == SortBySeq(details)
    IN  [j \in 1..Len(ds) |->
            [question |-> (CHOOSE q \in assessment_questions :
                               q.question_id = ds[j].question_id).question_text,
             answer   |-> (CHOOSE o \in response_options :
                               o.option_id = ds[j].selected_option_id).option_text,
             value    |-> ds[j].response_value]]

\* one row of the grouped join for header row ar
HistoryEntry_label_by_score(ar, details) ==
    [response_id      |-> ar.response_id,
     assessment_type  |-> (CHOOSE t \in assessment_types :
                               t.assessment_type_id = ar.assessment_type_id).code,
     assessment_title |-> (CHOOSE t \in assessment_types :
                               t.assessment_type_id = ar.assessment_type_id).title,
     total_score      |-> ar.total_score,
     severity_label   |-> (CHOOSE s \in severity_levels :
                               /\ s.assessment_type_id = ar.assessment_type_id
                               /\ s.min_score <= ar.total_score
                               /\ ar.total_score <= s.max_score).severity_label,
     created_at       |-> ar.created_at,
     response_details |-> DetailObjects(details)]

HistoryEntry(ar, details) ==
    [response_id      |-> ar.response_id,
     assessment_type  |-> (CHOOSE t \in assessment_types :
                               t.assessment_type_id = ar.assessment_type_id).code,
     assessment_title |-> (CHOOSE t \in assessment_types :
                               t.assessment_type_id = ar.assessment_type_id).title,
     total_score      |-> ar.total_score,
     severity_label   |-> (CHOOSE s \in severity_levels :
                               s.severity_id = ar.severity_id).severity_label,
     created_at       |-> ar.created_at,
     response_details |-> DetailObjects(details)]

\* rows of ar that survive the inner joins of lines 278-283
JoinedDetails(ar, details) ==
    {d \in details :
        /\ d.response_id = ar.response_id
        /\ \E q \in assessment_questions : q.question_id = d.question_id
        /\ \E o \in response_options : o.option_id = d.selected_option_id}

RECURSIVE SortNewestFirst(_)
\* ORDER BY ar.created_at DESC
SortNewestFirst(E) ==
    IF E = {} THEN <<>>
    ELSE LET e == CHOOSE x \in E : \A y \in E : y.created_at <= x.created_at
         IN  <<e>> \o SortNewestFirst(E \ {e})

get_user_assessment_history(responses, details, user_id) ==
    SortNewestFirst(
        { HistoryEntry(ar, JoinedDetails(ar, details)) :
            ar \in {r \in responses :
                      /\ r.user_id = user_id
                      /\ \E t \in assessment_types : t.assessment_type_id = r.assessment_type_id
                      /\ \E s \in severity_levels : s.severity_id = r.severity_id
                      /\ JoinedDetails(r, details) # {}} })

(* ---------------------------------------------------------------------- *)
(* st.session_state                                                        *)
(* ---------------------------------------------------------------------- *)
NoKeys == [k \in {} |-> FALSE]

SetKey(s, k, v) == [x \in DOMAIN s \cup {k} |-> IF x = k THEN v ELSE s[x]]

DelKey(s, k) == [x \in DOMAIN s \ {k} |-> s[x]]

\* getattr(st.session_state, k, default)
GetAttr(s, k, default) == IF k \in DOMAIN s THEN s[k] ELSE default

(* ---------------------------------------------------------------------- *)
(* Authentication                                                          *)
(* ---------------------------------------------------------------------- *)
Emails == {"a@fd", "b@fd"}

Passwords == {"pw1", "pw2"}

\* hashlib.sha256(password.encode()).hexdigest(): a digest, distinct per password
hash_password(password) == <<"sha256", password>>

NextUserId(rows) == IF rows = {} THEN 1 ELSE 1 + Max({u.user_id : u \in rows})

\* result: [ok, users, user_profiles, session]
register_user(us, ps, s, email, password, department, city) ==
    IF \E u \in us : u.email = email
    THEN \* psycopg2.IntegrityError: conn.rollback(), return False
         [ok |-> FALSE, users |-> us, user_profiles |-> ps, session |-> s]
    ELSE LET user_id == NextUserId(us)
         IN  [ok |-> TRUE,
              users |-> us \cup {[user_id |-> user_id, email |-> email,
                                  password_hash |-> hash_password(password),
                                  is_admin |-> FALSE, hide_scores |-> FALSE]},
              user_profiles |-> ps \cup {[user_id |-> user_id, full_name |-> "",
                                          age |-> 0, gender |-> "", years_service |-> 0,
                                          department |-> department, city |-> city]},
              session |-> SetKey(SetKey(s, "current_user", user_id), "is_admin", FALSE)]

\* result: [ok, session]
login_user_admin_view_on(us, s, email, password) ==
    LET rows == {u \in us : u.email = email /\ u.password_hash = hash_password(password)}
    IN  IF rows # {}
        THEN LET result == CHOOSE u \in rows : TRUE
             IN  [ok |-> TRUE,
                  session |-> SetKey(SetKey(SetKey(s, "current_user", result.user_id),
                                            "is_admin", result.is_admin),
                                     "is_admin_view", TRUE)]
        ELSE [ok |-> FALSE, session |-> s]

login_user(us, s, email, password) ==
    LET rows == {u \in us : u.email = email /\ u.password_hash = hash_password(password)}
    IN  IF rows # {}
        THEN LET result == CHOOSE u \in rows : TRUE
             IN  [ok |-> TRUE,
                  session |-> SetKey(SetKey(SetKey(s, "current_user", result.user_id),
                                            "is_admin", result.is_admin),
                                     "is_admin_view", result.is_admin)]
        ELSE [ok |-> FALSE, session |-> s]

\* user_settings['is_admin'] of get_user_settings
get_user_settings(us, user_id) ==
    (CHOOSE u \in us : u.user_id = user_id).is_admin


\* the UPDATE of update_user_profile
update_user_profile(ps, user_id, name, age, gender, years_service, department, city) ==
    { IF p.user_id = user_id
      THEN [user_id |-> user_id, full_name |-> name, age |-> age, gender |-> gender,
            years_service |-> years_service, department |-> department, city |-> city]
      ELSE p : p \in ps }

(* ---------------------------------------------------------------------- *)
(* Rendering: one run of the script                                        *)
(* ---------------------------------------------------------------------- *)
Sections == {"Dashboard", "Assessments", "Profile"}

\* a click on a button of the page: none, "View Responses" of a row, "Close"
NoClick == [button |-> "none", response_id |-> 0]

ViewClick(id) == [button |-> "view", response_id |-> id]

CloseClick == [button |-> "close", response_id |-> 0]

\* what a run that renders no dashboard hands to the browser
PageView(page) ==
    [page |-> page, admin_view |-> FALSE, history |-> <<>>, score_rows |-> {},
     detail_of |-> 0, detail_score |-> FALSE]

\* the condition of lines 426, 461, 472 and 491
ShowScores_flag_only(is_admin_view, user_is_admin) == is_admin_view

ShowScores_role_only(is_admin_view, user_is_admin) == user_is_admin

ShowScores(is_admin_view, user_is_admin) == is_admin_view /\ user_is_admin

\* result: [session, view]
render_dashboard(s, us, responses, details, click) ==
    LET user_is_admin      == get_user_settings(us, s["current_user"])
        assessment_history == get_user_assessment_history(responses, details, s["current_user"])
        is_admin_view      == GetAttr(s, "is_admin_view", TRUE)
        admin              == ShowScores(is_admin_view, user_is_admin)
        ids                == {assessment_history[i].response_id :
                                  i \in 1..Len(assessment_history)}
    IN
    IF assessment_history = <<>>
    THEN [session |-> s,
          view |-> [PageView("Dashboard") EXCEPT !.history = assessment_history]]
    ELSE
    LET \* line 479-480: the button of a row exists in the normal view only
        s1 == IF ~admin /\ click.button = "view" /\ click.response_id \in ids
              THEN SetKey(s, "selected_response",
                          CHOOSE e \in {assessment_history[i] : i \in 1..Len(assessment_history)} :
                              e.response_id = click.response_id)
              ELSE s
        open == "selected_response" \in DOMAIN s1
        \* line 500-501: the Close button exists while the details are shown
        s2 == IF open /\ click.button = "close" THEN DelKey(s1, "selected_response") ELSE s1
    IN  [session |-> s2,
         view |-> [page         |-> "Dashboard",
                   admin_view   |-> admin,
                   history      |-> assessment_history,
                   score_rows   |-> IF admin THEN ids ELSE {},
                   detail_of    |-> IF open THEN s1["selected_response"].response_id ELSE 0,
                   detail_score |-> open /\ admin]]

\* lines 523-534; toggled: the user flipped the checkbox before this run.
\* After st.rerun() the restarted script finds widget and key equal.
SyncAdminView(s, toggled) ==
    IF GetAttr(s, "is_admin", FALSE)
    THEN LET shown         == GetAttr(s, "is_admin_view", TRUE)
             is_admin_view == IF toggled THEN ~shown ELSE shown
         IN  IF "is_admin_view" \notin DOMAIN s \/ is_admin_view # s["is_admin_view"]
             THEN SetKey(s, "is_admin_view", is_admin_view)
             ELSE s
    ELSE s

\* lines 536-544: the section this run renders
ActiveSection_radio_only(s, rad) == rad

ActiveSection(s, rad) == IF "section" \in DOMAIN s THEN s["section"] ELSE rad

\* the authenticated branch of main() up to the Logout button; result: [session, view]
AuthenticatedRun_dashboard_scoped(s, rad, us, responses, details, toggled, click) ==
    LET s1      == SyncAdminView(s, toggled)
        section == ActiveSection(s1, rad)
        s2      == DelKey(s1, "section")
    IN  IF section = "Dashboard"
        THEN render_dashboard(s2, us, responses, details, click)
        ELSE [session |-> DelKey(s2, "selected_response"), view |-> PageView(section)]

AuthenticatedRun(s, rad, us, responses, details, toggled, click) ==
    LET s1      == SyncAdminView(s, toggled)
        section == ActiveSection(s1, rad)
        s2      == DelKey(s1, "section")
    IN  IF section = "Dashboard"
        THEN render_dashboard(s2, us, responses, details, click)
        ELSE [session |-> s2, view |-> PageView(section)]

Authenticated == "current_user" \in DOMAIN session

\* the last operation called save_assessment_response: its arguments and result
Saved(ok, error, user_id, assessment_type_id, responses, total_score, fault) ==
    [called |-> TRUE, ok |-> ok, error |-> error, user_id |-> user_id,
     assessment_type_id |-> assessment_type_id, responses |-> responses,
     total_score |-> total_score, fault |-> fault]

\* the last operation made no such call
NoSave ==
    [called |-> FALSE, ok |-> FALSE, error |-> "", user_id |-> 0,
     assessment_type_id |-> 0, responses |-> <<>>, total_score |-> 0, fault |-> 0]

(* ---------------------------------------------------------------------- *)
(* Initial state: the seeded administrator, empty response tables          *)
(* ---------------------------------------------------------------------- *)
Init ==
    /\ users = {[user_id |-> 1, email |-> "a@fd", password_hash |-> hash_password("pw1"),
                 is_admin |-> TRUE, hide_scores |-> FALSE]}
    /\ user_profiles = {[user_id |-> 1, full_name |-> "Ann", age |-> 30, gender |-> "Female",
                         years_service |-> 5, department |-> "d1", city |-> "c1"]}
    /\ assessment_responses = {}
    /\ response_details = {}
    /\ session = NoKeys
    /\ radio = "Dashboard"
    /\ view = PageView("auth")
    /\ lastSave = NoSave

(* ---------------------------------------------------------------------- *)
(* Actions of the application                                              *)
(* ---------------------------------------------------------------------- *)
\* render_login: the form, login_user, st.rerun()
Login(email, password) ==
    /\ ~Authenticated
    /\ LET r == login_user(users, session, email, password)
       IN  IF r.ok
           THEN LET run == AuthenticatedRun(r.session, radio, users, assessment_responses,
                                            response_details, FALSE, NoClick)
                IN  /\ session' = run.session
                    /\ view' = run.view
                    /\ lastSave' = NoSave
           ELSE /\ session' = r.session
                /\ view' = PageView("auth")
                /\ lastSave' = NoSave
    /\ UNCHANGED <<users, user_profiles, assessment_responses, response_details, radio>>

\* render_signup: the form, register_user, st.rerun()
SignUp(email, password, department, city) ==
    /\ ~Authenticated
    /\ LET r == register_user(users, user_profiles, session, email, password, department, city)
       IN  /\ users' = r.users
           /\ user_profiles' = r.user_profiles
           /\ IF r.ok
              THEN LET run == AuthenticatedRun(r.session, radio, r.users, assessment_responses,
                                               response_details, FALSE, NoClick)
                   IN  /\ session' = run.session
                       /\ view' = run.view
                       /\ lastSave' = NoSave
              ELSE /\ session' = r.session
                   /\ view' = PageView("auth")
                   /\ lastSave' = NoSave
    /\ UNCHANGED <<assessment_responses, response_details, radio>>

\* the "Admin View" checkbox of the sidebar
ToggleAdminView ==
    /\ Authenticated
    /\ LET run == AuthenticatedRun(session, radio, users, assessment_responses,
                                   response_details, TRUE, NoClick)
       IN  /\ session' = run.session
           /\ view' = run.view
    /\ lastSave' = NoSave
    /\ UNCHANGED <<users, user_profiles, assessment_responses, response_details, radio>>

\* the "Main Menu" radio of the sidebar
SelectSection(section) ==
    /\ Authenticated
    /\ radio' = section
    /\ LET run == AuthenticatedRun(session, section, users, assessment_responses,
                                   response_details, FALSE, NoClick)
       IN  /\ session' = run.session
           /\ view' = run.view
    /\ lastSave' = NoSave
    /\ UNCHANGED <<users, user_profiles, assessment_responses, response_details>>

\* "View Responses" of a row the last run rendered
OpenResponse(id) ==
    /\ Authenticated
    /\ view.page = "Dashboard" /\ ~view.admin_view
    /\ \E i \in 1..Len(view.history) : view.history[i].response_id = id
    /\ LET run == AuthenticatedRun(session, radio, users, assessment_responses,
                                   response_details, FALSE, ViewClick(id))
       IN  /\ session' = run.session
           /\ view' = run.view
           /\ lastSave' = NoSave
    /\ UNCHANGED <<users, user_profiles, assessment_responses, response_details, radio>>

\* "Close" under the response details the last run rendered
CloseResponse ==
    /\ Authenticated
    /\ view.page = "Dashboard" /\ view.detail_of # 0
    /\ LET run == AuthenticatedRun(session, radio, users, assessment_responses,
                                   response_details, FALSE, CloseClick)
       IN  /\ session' = run.session
           /\ view' = run.view
    /\ lastSave' = NoSave
    /\ UNCHANGED <<users, user_profiles, assessment_responses, response_details, radio>>

\* render_profile: the form, update_user_profile, st.rerun()
UpdateProfile(name, age, gender, years_service, department, city) ==
    /\ Authenticated
    /\ view.page = "Profile"
    /\ user_profiles' = update_user_profile(user_profiles, session["current_user"], name, age,
                                            gender, years_service, department, city)
    /\ LET run == AuthenticatedRun(session, radio, users, assessment_responses,
                                   response_details, FALSE, NoClick)
       IN  /\ session' = run.session
           /\ view' = run.view
    /\ lastSave' = NoSave
    /\ UNCHANGED <<users, assessment_responses, response_details, radio>>

\* the Logout button, lines 565-569
logout_identity_only(s) == DelKey(s, "current_user")

logout(s) == NoKeys

Logout ==
    /\ Authenticated
    /\ session' = logout(AuthenticatedRun(session, radio, users, assessment_responses,
                                          response_details, FALSE, NoClick).session)
    /\ radio' = "Dashboard"
    /\ view' = PageView("auth")
    /\ lastSave' = NoSave
    /\ UNCHANGED <<users, user_profiles, assessment_responses, response_details>>


(* ---------------------------------------------------------------------- *)
(* render_questionnaire                                                    *)
(* ---------------------------------------------------------------------- *)
\* the options a respondent picks from: those joined to the type, first MaxPick
Options(assessment_type_id) ==
    {o \in response_options :
        o.assessment_type_id = assessment_type_id /\ o.option_order <= MaxPick}

\* the state of the radios of the form: per question an option_id, or 0 for
\* "Select an option"; forms with at most one question left unanswered
Picks(assessment_type_id) ==
    {p \in [1..Len(get_assessment_questions(assessment_type_id)) ->
               {0} \cup {o.option_id : o \in Options(assessment_type_id)}] :
        Cardinality({i \in DOMAIN p : p[i] = 0}) <= 1}

OptionValue(option_id) ==
    (CHOOSE o \in response_options : o.option_id = option_id).option_value

\* lines 368-392: the (question_id, option_id, value) triples of the answered questions
FormResponses(assessment_type_id, pick) ==
    LET qs  == get_assessment_questions(assessment_type_id)
        all == [i \in 1..Len(qs) |->
                   <<qs[i].question_id, pick[i],
                     IF pick[i] = 0 THEN 0 ELSE OptionValue(pick[i])>>]
        Answered(r) == r[2] # 0
    IN  SelectSeq(all, Answered)

\* questions_answered, line 397
AllAnswered(pick) == \A i \in DOMAIN pick : pick[i] # 0

\* rows fetchone() may return from the severity query of a call (any row when the
\* call never reaches the query or no row matches)
SeverityCandidates(assessment_type_id, responses, total_score) ==
    LET codeRows == {t \in assessment_types : t.assessment_type_id = assessment_type_id}
    IN  IF codeRows = {} \/ \E i \in 1..Len(responses) : QuestionOrderRows(responses[i][1]) = {}
        THEN {CHOOSE x \in severity_levels : TRUE}
        ELSE LET code == (CHOOSE t \in codeRows : TRUE).code
                 m == MatchingSeverity(assessment_type_id,
                                       AdjustedTotal(code, responses, total_score))
             IN  IF m = {} THEN {CHOOSE x \in severity_levels : TRUE} ELSE m

CodeOf(assessment_type_id) ==
    (CHOOSE t \in assessment_types : t.assessment_type_id = assessment_type_id).code

Db == [assessment_responses |-> assessment_responses, response_details |-> response_details]

\* the "Submit Assessment" button of the form of the selected assessment; limit is
\* the number of header rows the model lets the table hold
SubmitWithin(limit, assessment_type_id, pick, fault, first) ==
    /\ Authenticated
    /\ view.page = "Assessments"
    /\ LET s1        == DelKey(SyncAdminView(session, FALSE), "section")
           user_id   == s1["current_user"]
           responses == FormResponses(assessment_type_id, pick)
           total_score == SumValues(responses)
       IN  IF ~AllAnswered(pick)
           THEN \* "Please answer all questions before submitting."
                /\ session' = s1
                /\ view' = PageView("Assessments")
                /\ lastSave' = NoSave
                /\ fault = 0
                /\ first = CHOOSE x \in severity_levels : TRUE
                /\ UNCHANGED <<assessment_responses, response_details>>
           ELSE /\ first \in SeverityCandidates(assessment_type_id, responses, total_score)
                /\ fault \in {0, NumStatements(CodeOf(assessment_type_id), responses)}
                /\ LET r == save_assessment_response(Db, user_id, assessment_type_id,
                                                     responses, total_score, fault, first)
                   IN  /\ r.ok => Cardinality(assessment_responses) < limit
                       /\ assessment_responses' = r.db.assessment_responses
                       /\ response_details' = r.db.response_details
                       /\ lastSave' = Saved(r.ok, r.error, user_id, assessment_type_id,
                                             responses, total_score, fault)
                       /\ IF r.ok
                          THEN \* st.session_state.section = "Dashboard"; st.rerun()
                               LET run == AuthenticatedRun(SetKey(s1, "section", "Dashboard"),
                                              radio, users, r.db.assessment_responses,
                                              r.db.response_details, FALSE, NoClick)
                               IN  /\ session' = run.session
                                   /\ view' = run.view
                          ELSE /\ session' = s1
                               /\ view' = PageView("Assessments")
    /\ UNCHANGED <<users, user_profiles, radio>>

SubmitAssessment(assessment_type_id, pick, fault, first) ==
    SubmitWithin(MaxResponses, assessment_type_id, pick, fault, first)

Departments == {"d1"}

Cities == {"c1"}

Next ==
    \/ \E email \in Emails, password \in Passwords : Login(email, password)
    \/ \E email \in Emails, department \in Departments, city \in Cities :
          SignUp(email, "pw2", department, city)
    \/ ToggleAdminView
    \/ \E section \in Sections : SelectSection(section)
    \/ \E id \in 1..MaxResponses : OpenResponse(id)
    \/ CloseResponse
    \/ \E city \in Cities : UpdateProfile("Ann", 30, "Female", 5, "d1", city)
    \/ /\ Authenticated /\ view.page = "Assessments"
       /\ \E t \in {x.assessment_type_id : x \in assessment_types} :
             \E pick \in Picks(t) :
                \E fault \in IF AllAnswered(pick)
                              THEN {0, NumStatements(CodeOf(t), FormResponses(t, pick))}
                              ELSE {0},
                   first \in IF AllAnswered(pick)
                              THEN SeverityCandidates(t, FormResponses(t, pick),
                                                      SumValues(FormResponses(t, pick)))
                              ELSE {CHOOSE x \in severity_levels : TRUE} :
                      SubmitAssessment(t, pick, fault, first)
    \/ Logout

Spec == Init /\ [][Next]_vars

(* ---------------------------------------------------------------------- *)
(* save_assessment_response called with arbitrary arguments                *)
(* ---------------------------------------------------------------------- *)
\* answer lists a caller may pass.  Type 1: option 1 for the first question and
\* option 1 or 2 for the questions of order 4 and 7 (adjusted totals 9, 10, 11), and
\* a list naming a question_id that is in no row.  Type 2: option 1 or 2.  An
\* unknown type: one answer of type 2.
CallResponses(assessment_type_id) ==
    IF assessment_type_id = 1
    THEN { << <<1, 1, 1>>, <<2, a, a>>, <<3, b, b>> >> : a \in {1, 2}, b \in {1, 2} }
         \cup { << <<1, 1, 1>>, <<9, 1, 1>> >> }
    ELSE { << <<4, 5 + a, a>> >> : a \in {1, 2} }

\* total_score arguments: the caller's sum, and a value that is not the sum
TotalArgs(responses) == {SumValues(responses), SumValues(responses) + 1}

NumStatementsOf(assessment_type_id, responses) ==
    IF assessment_type_id \in {t.assessment_type_id : t \in assessment_types}
    THEN NumStatements(CodeOf(assessment_type_id), responses)
    ELSE 1

SaveCall(user_id, assessment_type_id, responses, total_score, fault, first) ==
    /\ first \in SeverityCandidates(assessment_type_id, responses, total_score)
    /\ fault \in 0..NumStatementsOf(assessment_type_id, responses)
    /\ LET r == save_assessment_response(Db, user_id, assessment_type_id, responses,
                                         total_score, fault, first)
       IN  /\ r.ok => Cardinality(assessment_responses) < MaxResponses
           /\ assessment_responses' = r.db.assessment_responses
           /\ response_details' = r.db.response_details
           /\ lastSave' = Saved(r.ok, r.error, user_id, assessment_type_id,
                                 responses, total_score, fault)
    /\ UNCHANGED <<users, user_profiles, session, radio, view>>

NextSave ==
    \E assessment_type_id \in TypeIds :
       \E responses \in CallResponses(assessment_type_id) :
          \E total_score \in TotalArgs(responses), fault \in 0..10, first \in severity_levels :
             SaveCall(1, assessment_type_id, responses, total_score, fault, first)

SpecSave == Init /\ [][NextSave]_vars

(* ---------------------------------------------------------------------- *)
(* The application with a table of up to MaxHistory responses              *)
(* ---------------------------------------------------------------------- *)
\* complete forms: every question answered with the first, or every question
\* answered with the second option of the type
HistoryPicks(assessment_type_id) ==
    { [i \in 1..Len(get_assessment_questions(assessment_type_id)) |-> o.option_id] :
        o \in {x \in response_options :
                  x.assessment_type_id = assessment_type_id /\ x.option_order <= 2} }

SubmitHistory ==
    /\ Authenticated /\ view.page = "Assessments"
    /\ \E t \in {x.assessment_type_id : x \in assessment_types} :
          \E pick \in HistoryPicks(t) :
             \E fault \in {0, NumStatements(CodeOf(t), FormResponses(t, pick))},
                first \in SeverityCandidates(t, FormResponses(t, pick),
                                             SumValues(FormResponses(t, pick))) :
                SubmitWithin(MaxHistory, t, pick, fault, first)

NextHistory ==
    \/ \E email \in Emails, password \in Passwords : Login(email, password)
    \/ \E email \in Emails, department \in Departments, city \in Cities :
          SignUp(email, "pw2", department, city)
    \/ ToggleAdminView
    \/ \E section \in Sections : SelectSection(section)
    \/ \E id \in 1..MaxHistory : OpenResponse(id)
    \/ CloseResponse
    \/ \E city \in Cities : UpdateProfile("Ann", 30, "Female", 5, "d1", city)
    \/ SubmitHistory
    \/ Logout

SpecHistory == Init /\ [][NextHistory]_vars


(* ---------------------------------------------------------------------- *)
(* Properties                                                              *)
(* ---------------------------------------------------------------------- *)
\* the header row the last successful call inserted, and its detail rows
NewestResponse ==
    CHOOSE r \in assessment_responses :
        \A x \in assessment_responses : x.response_id <= r.response_id

DetailsOf(response_id) == {d \in response_details : d.response_id = response_id}

RECURSIVE SumOver(_)
SumOver(D) ==
    IF D = {} THEN 0
    ELSE LET d == CHOOSE x \in D : TRUE IN d.response_value + SumOver(D \ {d})

QuestionOrderOf(question_id) ==
    (CHOOSE q \in assessment_questions : q.question_id = question_id).question_order

LastTypeRows == {t \in assessment_types : t.assessment_type_id = lastSave.assessment_type_id}

LastIsRelationship == \E t \in LastTypeRows : t.code = "RELATIONSHIP"

\* the value the specification asks for answer j of the last call
ExpectedValue(j) ==
    LET r == lastSave.responses[j]
    IN  IF LastIsRelationship /\ QuestionOrderOf(r[1]) \in {4, 7} THEN 6 - r[3] ELSE r[3]

RECURSIVE SumExpected(_)
SumExpected(n) == IF n = 0 THEN 0 ELSE ExpectedValue(n) + SumExpected(n - 1)

\* every answer of the last call has a persisted detail row with the expected value
LastDetailsAre(Value(_)) ==
    LET ds == DetailsOf(NewestResponse.response_id)
    IN  /\ Cardinality(ds) = Len(lastSave.responses)
        /\ \A j \in 1..Len(lastSave.responses) :
              \E d \in ds : /\ d.seq = j
                            /\ d.question_id = lastSave.responses[j][1]
                            /\ d.selected_option_id = lastSave.responses[j][2]
                            /\ d.response_value = Value(j)

\* C1: after a successful save of a RELATIONSHIP assessment, the answers of the
\* questions of order 4 and 7 are stored as 6 - v, every other answer as v, and the
\* stored total_score is the sum of the stored values, whatever total_score was passed.
C1_ReverseScoredPersisted ==
    (lastSave.called /\ lastSave.ok /\ LastIsRelationship) =>
        /\ LastDetailsAre(ExpectedValue)
        /\ NewestResponse.total_score = SumOver(DetailsOf(NewestResponse.response_id))
        /\ NewestResponse.total_score = SumExpected(Len(lastSave.responses))

\* a RELATIONSHIP save succeeded whose questions 4 and 7 were answered with values
\* other than 3 and whose total_score argument is not the stored total
C1_Witness ==
    /\ lastSave.called /\ lastSave.ok /\ LastIsRelationship
    /\ \E i, j \in 1..Len(lastSave.responses) :
          /\ QuestionOrderOf(lastSave.responses[i][1]) = 4
          /\ QuestionOrderOf(lastSave.responses[j][1]) = 7
          /\ lastSave.responses[i][3] = 2
          /\ lastSave.responses[j][3] = 2
    /\ lastSave.total_score # NewestResponse.total_score

RawValue(j) == OptionValue(lastSave.responses[j][2])

RECURSIVE SumRaw(_)
SumRaw(n) == IF n = 0 THEN 0 ELSE RawValue(n) + SumRaw(n - 1)

NoOrphans ==
    /\ \A r \in assessment_responses : DetailsOf(r.response_id) # {}
    /\ \A d \in response_details :
          \E r \in assessment_responses : r.response_id = d.response_id

\* C3: save_assessment_response is atomic: a header row exists exactly with all
\* its detail rows (one per answer), and a call that returns False leaves both tables
\* as they were.
C3_Atomic ==
    /\ [](NoOrphans /\ (lastSave.called /\ lastSave.ok =>
                           Cardinality(DetailsOf(NewestResponse.response_id))
                              = Len(lastSave.responses)))
    /\ [][(lastSave'.called /\ ~lastSave'.ok) =>
             /\ assessment_responses' = assessment_responses
             /\ response_details' = response_details]_vars

\* a call failed on its last detail insert (header and other details written) while
\* the tables held an earlier response
C3_Witness ==
    /\ lastSave.called /\ ~lastSave.ok /\ lastSave.error = "DatabaseError"
    /\ LastTypeRows # {}
    /\ lastSave.fault = NumStatements((CHOOSE t \in LastTypeRows : TRUE).code,
                                      lastSave.responses) - 1
    /\ assessment_responses # {}

\* the total the last call has to classify: the adjusted sum for RELATIONSHIP, else
\* the total_score passed
LastExpectedTotal ==
    IF LastIsRelationship THEN SumExpected(Len(lastSave.responses)) ELSE lastSave.total_score

BandsContaining(assessment_type_id, total) ==
    {s \in severity_levels : /\ s.assessment_type_id = assessment_type_id
                             /\ s.min_score <= total /\ total <= s.max_score}

\* the last call named a known type and known questions
LastWellFormed ==
    /\ lastSave.called
    /\ LastTypeRows # {}
    /\ \A j \in 1..Len(lastSave.responses) :
          \E q \in assessment_questions : q.question_id = lastSave.responses[j][1]

\* C4: a call whose (adjusted) total lies in no severity band of its type returns
\* False with an error and persists nothing; no severity is assigned by default.
C4_NoBandFails ==
    [][(LastWellFormed' /\ BandsContaining(lastSave'.assessment_type_id,
                                           LastExpectedTotal') = {}) =>
          /\ ~lastSave'.ok
          /\ lastSave'.error # ""
          /\ assessment_responses' = assessment_responses
          /\ response_details' = response_details]_vars

\* a RELATIONSHIP call with adjusted total 10 (raw sum 4 lies in a band) failed
\* without any database fault
C4_Witness ==
    /\ LastWellFormed /\ LastIsRelationship
    /\ lastSave.fault = 0
    /\ LastExpectedTotal = 10
    /\ lastSave.total_score \in 3..9
    /\ ~lastSave.ok /\ lastSave.error = "TypeError"

\* C5: a call whose total lies in two or more severity bands of its type fails
\* (ClassificationNotFound) and persists nothing.
C5_TieFails ==
    (LastWellFormed /\ Cardinality(BandsContaining(lastSave.assessment_type_id,
                                                   LastExpectedTotal)) >= 2)
        => ~lastSave.ok


\* a call whose total lies in both bands of type 2 was made without a database fault
C5_Witness ==
    /\ LastWellFormed /\ lastSave.fault = 0
    /\ Cardinality(BandsContaining(lastSave.assessment_type_id, LastExpectedTotal)) >= 2

(* ---------------------------------------------------------------------- *)
(* Session and navigation properties                                       *)
(* ---------------------------------------------------------------------- *)
CurrentUserIsAdmin ==
    Authenticated /\ \E u \in users : u.user_id = session["current_user"] /\ u.is_admin

\* the role context: is_admin_view (True when the key is absent) and user.is_admin
AdminContext == CurrentUserIsAdmin /\ GetAttr(session, "is_admin_view", TRUE)

HasScoreFields(entry) ==
    "total_score" \in DOMAIN entry \/ "severity_label" \in DOMAIN entry

\* the last run wrote no score or severity: no radar chart and Score/Result columns,
\* no row with a score, no Score/Result line under the response details
NothingScoredRendered ==
    ~view.admin_view /\ view.score_rows = {} /\ ~view.detail_score

AnyLogin == \E email \in Emails, password \in Passwords : Login(email, password)

AnySignUp ==
    \E email \in Emails, department \in Departments, city \in Cities :
        SignUp(email, "pw2", department, city)

\* C7: a step that leaves the authenticated state (the Logout button) removes every
\* key of the session at once and renders the login / sign-up page, and from an
\* unauthenticated state every step is a login or a sign-up.
C7_LogoutClearsSession ==
    [][/\ (Authenticated /\ Logout) =>
              /\ DOMAIN session' = {}
              /\ view' = PageView("auth")
       /\ (Authenticated /\ ~Authenticated') => Logout
       /\ ~Authenticated => (AnyLogin \/ AnySignUp)]_vars

\* logged out after a submission: the tables hold a response and the
\* session holds no key
C7_Witness ==
    /\ ~Authenticated /\ DOMAIN session = {}
    /\ assessment_responses # {}
    /\ view.page = "auth"

SelectedSet(s) == "selected_response" \in DOMAIN s

C9_NonAdminNeverAdminView ==
    /\ []((Authenticated /\ ~CurrentUserIsAdmin) => NothingScoredRendered)
    /\ [][(Authenticated /\ ~CurrentUserIsAdmin /\ ToggleAdminView) =>
             session' = session]_vars

\* a registered user (is_admin_view absent, so True by default) sees the dashboard
\* with a response in the history
C9_Witness ==
    /\ Authenticated /\ ~CurrentUserIsAdmin
    /\ "is_admin_view" \notin DOMAIN session
    /\ view.page = "Dashboard" /\ view.history # <<>>

CredentialsMatch(email, password) ==
    \E u \in users : u.email = email /\ u.password_hash = hash_password(password)

SubmitIncomplete ==
    /\ Authenticated /\ view.page = "Assessments"
    /\ ~lastSave'.called
    /\ \E t \in {x.assessment_type_id : x \in assessment_types} :
          \E pick \in {p \in Picks(t) : ~AllAnswered(p)} :
             SubmitAssessment(t, pick, 0, CHOOSE x \in severity_levels : TRUE)

\* the "Submit Assessment" button on a complete form: the step that calls
\* save_assessment_response
SubmitSaving == lastSave'.called

\* C11: a submission whose save succeeds is followed by a render of the Dashboard
\* although the navigation menu still selects Assessments, and the forcing key is used
\* up by that render; a submission that is blocked as incomplete or whose save fails
\* renders the section it was made from and leaves the menu and the forcing key alone.
C11_RedirectAfterSave ==
    [][(SubmitSaving \/ SubmitIncomplete) =>
          /\ view.page = "Assessments"
          /\ radio' = radio /\ radio = "Assessments"
          /\ "section" \notin DOMAIN session'
          /\ IF lastSave'.called /\ lastSave'.ok
             THEN view'.page = "Dashboard"
             ELSE /\ view'.page = view.page
                  /\ ActiveSection(session', radio') = ActiveSection(session, radio)]_vars

\* a submission was saved: the Dashboard is shown with the new response while the
\* navigation menu selects Assessments
C11_Witness ==
    /\ lastSave.called /\ lastSave.ok
    /\ radio = "Assessments"
    /\ view.page = "Dashboard" /\ view.history # <<>>
    /\ "section" \notin DOMAIN session

(* ---------------------------------------------------------------------- *)
(* Response history                                                        *)
(* ---------------------------------------------------------------------- *)
\* the users the two emails can belong to
UserIds == 1..Cardinality(Emails)

\* the entries get_user_assessment_history returns for a user from given tables
EntriesIn(responses, details, user_id) ==
    LET h == get_user_assessment_history(responses, details, user_id)
    IN  {h[i] : i \in 1..Len(h)}

\* every stored response is reported, once, in the history of its user
AllReported ==
    \A u \in UserIds :
        LET h == get_user_assessment_history(assessment_responses, response_details, u)
        IN  /\ Len(h) = Cardinality({r \in assessment_responses : r.user_id = u})
            /\ \A r \in assessment_responses :
                  r.user_id = u =>
                      \E i \in 1..Len(h) : /\ h[i].response_id = r.response_id
                                           /\ h[i].total_score = r.total_score

\* a step that saves a response: the entry of the new response reports the total the
\* call computed and the label of the severity row the call fetched
NewEntryAsComputed ==
    \A t \in {x.assessment_type_id : x \in assessment_types} :
       \A pick \in HistoryPicks(t), first \in severity_levels :
          (/\ first \in SeverityCandidates(t, FormResponses(t, pick),
                                           SumValues(FormResponses(t, pick)))
           /\ SubmitWithin(MaxHistory, t, pick, 0, first)
           /\ lastSave'.ok)
          => LET new == assessment_responses' \ assessment_responses
                 es  == EntriesIn(assessment_responses', response_details',
                                  lastSave'.user_id)
             IN  /\ Cardinality(new) = 1
                 /\ \A r \in new :
                       \E e \in es :
                          /\ e.response_id = r.response_id
                          /\ e.total_score = LastExpectedTotal'
                          /\ e.severity_label = first.severity_label
                          /\ Len(e.response_details) = Len(lastSave'.responses)

\* C12: every step keeps every stored response row and detail row as it is, and keeps
\* every entry of every user's history (total_score and severity_label included) as
\* it was; the entry of a response reports, from the step that saved it on, the total
\* and the severity label computed by that save; every stored response is reported.
C12_RoundTripImmutable ==
    /\ []AllReported
    /\ [][/\ assessment_responses \subseteq assessment_responses'
          /\ response_details \subseteq response_details'
          /\ \A u \in UserIds :
                EntriesIn(assessment_responses, response_details, u)
                   \subseteq EntriesIn(assessment_responses', response_details', u)
          /\ (lastSave'.called /\ lastSave'.ok) => NewEntryAsComputed]_vars

\* two responses are stored, the older one by the first and the newer one by the
\* second user, the newer one saved with a total that lies in two bands; the second
\* user has since moved on to the profile page
C12_Witness ==
    /\ Cardinality(assessment_responses) = 2
    /\ \E a, b \in assessment_responses :
          /\ a.user_id = 1 /\ b.user_id = 2 /\ a.response_id < b.response_id
          /\ Cardinality(BandsContaining(b.assessment_type_id, b.total_score)) = 2
    /\ lastSave = NoSave
    /\ Authenticated /\ session["current_user"] = 2
    /\ view.page = "Profile"

====
